---- MODULE Spec2Model ----
(***************************************************************************)
(* Playback session of the escamusica bot (src/main.py): the CustomPlayer  *)
(* of one guild (custom queue, history, loop mode, now-playing message),   *)
(* the MusicControls buttons, the /join and /play commands and the         *)
(* on_wavelink_track_end handler.                                          *)
(*                                                                         *)
(* The wavelink Player and the Lavalink node are modelled at the interface *)
(* the code relies on:                                                     *)
(*   - vc.current is the track last handed to vc.play(); it stays set      *)
(*     while the track plays and until the handler of its end event has    *)
(*     run (line 68: "self.current would be the track that just finished   *)
(*     or was stopped"); vc.disconnect() clears it;                        *)
(*   - vc.playing is "connected and a current track is loaded";            *)
(*   - vc.stop() makes the node end the playing track with reason 1        *)
(*     (STOPPED); a track that plays to its end ends with reason 0         *)
(*     (FINISHED); the end event is delivered later, to the player the     *)
(*     guild has at that time (none: the handler returns at line 136);     *)
(*   - end events with any other reason match neither branch of the        *)
(*     handler (lines 141, 144) and are not modelled;                      *)
(*   - pause/resume do not touch queue, history, current or loop mode;     *)
(*     a paused player has a loaded track, so "vc.playing or vc.paused"    *)
(*     (line 223) is vc.playing.                                           *)
(* Each handler is one atomic step.                                        *)
(*                                                                         *)
(* The same steps are run from several initial states: short sessions over *)
(* a few songs (Spec), long sessions of one song (SpecLong), sessions over *)
(* a long playlist of distinct tracks (SpecPlaylist), players that start   *)
(* at other volumes (SpecVolume), sessions with two track end events in    *)
(* flight (SpecRace) and sessions that users leave to themselves, with     *)
(* fairness of the node and of the event delivery (SpecUnattended).        *)
(***************************************************************************)
EXTENDS Integers, Sequences, FiniteSets, TLC

\* ---------------------------------------------------------------- bounds
\* Songs the track resolver can return in the short sessions.
NSongs == 2
\* Resolved play requests accepted in a short session run.
MaxRequests == 3
\* Resolved play requests accepted in a long, single-song run.
LongRequests == 12
\* Play requests are not accepted while this many tracks wait in the queue.
MaxQueue == 2
\* The same, in the sessions over a long playlist.
LongQueue == 11
\* Resolved play requests accepted in a session over a long playlist.
PlaylistRequests == 16
\* Volume buttons are not pressed once the volume is this many steps away
\* from the volume the player started with.
MaxVolumeSteps == 1
\* Resolved play requests accepted in a run about the volume.
VolumeRequests == 1
\* Track end events in flight between the node and the handler.
MaxEvents == 1
\* The same, in the runs about events that are overtaken by commands.
RaceEvents == 2

\* ------------------------------------------------------ program constants
Off == 0
Song == 1
LoopQueue == 2
FINISHED == 0
STOPPED == 1
HistoryCap == 10
DisplayCap == 10
VolumeStep == 100
MaxVolume == 1000
MinVolume == 0
\* Volume of a freshly constructed wavelink Player.
DefaultVolumes == {100}
\* Volumes a player can be given to start with ("Volume is 0-1000", line
\* 317), less than one step of the buttons away from either end.
StartVolumes == {50, 950}

VARIABLES
    connected,        \* interaction.guild.voice_client is a CustomPlayer
    current,          \* vc.current: <<>> (None) or <<track>>
    queue,            \* vc._custom_queue, front first
    history,          \* vc.history, oldest first
    loop_mode,        \* vc.loop_mode
    current_message,  \* vc.current_message is not None
    volume,           \* vc.volume
    node_playing,     \* the node is playing the loaded track
    events,           \* track end events in flight, oldest first
    cmds,             \* player commands sent to the node by the last step
    display,          \* the queue display sent by the last step
    last,             \* the last step: handler and the message it sent
    catalogue,        \* songs the resolver returns
    requested,        \* per song, the number of resolved play requests so far
    requests_left,    \* resolved play requests still accepted in this run
    limits,           \* the bounds of this run (fixed by the initial state)
    attended,         \* users still send commands
    late,             \* how many of the events in flight, the oldest ones,
                      \* were sent before the last shutdown (kept in the
                      \* runs about events overtaken by commands)
    raced,            \* the tracks requested since the player was told to
                      \* stop, while the event of that stop is in flight
                      \* (kept in the same runs)
    restored          \* <<>>, or the session as it was before previous(),
                      \* while nothing but the natural end of the restored
                      \* track has happened since

vars == <<connected, current, queue, history, loop_mode, current_message,
          volume, node_playing, events, cmds, display, last, catalogue,
          requested, requests_left, limits, attended, late, raced,
          restored>>

Songs == 1..NSongs

\* ------------------------------------------------------------- sequences
Min(a, b) == IF a < b THEN a ELSE b
Max(a, b) == IF a > b THEN a ELSE b
Last(s) == s[Len(s)]
Front(s) == SubSeq(s, 1, Len(s) - 1)
Range(s) == {s[i] : i \in 1..Len(s)}
Count(s, x) == Cardinality({i \in 1..Len(s) : s[i] = x})
SameBag(a, b) == /\ Len(a) = Len(b)
                 /\ \A x \in Range(a) \cup Range(b) : Count(a, x) = Count(b, x)
\* Every order random.shuffle can leave the list in.
Shuffles(q) == {p \in [1..Len(q) -> Range(q)] : SameBag(p, q)}

\* ------------------------------------------------------ the player object
\* A step that sends no queue display.
NoDisplay == [entries |-> <<>>, more |-> 0]

\* The fields of the player and of the node as one record, with what the
\* step sends: the commands to the node and the queue display.
Player == [connected |-> connected, current |-> current, queue |-> queue,
           history |-> history, loop_mode |-> loop_mode,
           current_message |-> current_message, volume |-> volume,
           node_playing |-> node_playing, events |-> events, cmds |-> <<>>,
           display |-> NoDisplay]

\* CustomPlayer.__init__ on a new voice connection.
NewPlayer(p, vol) == [p EXCEPT !.connected = TRUE, !.current = <<>>,
                               !.queue = <<>>, !.history = <<>>,
                               !.loop_mode = Off, !.current_message = FALSE,
                               !.volume = vol, !.node_playing = FALSE]

\* asyncio.Queue.put / get on the custom queue.
QueuePut(q, track) == Append(q, track)
\* A get that takes the newest item instead of the oldest.
QueueGetNewest(q) == [item |-> Last(q), rest |-> Front(q)]
QueueGet(q) == [item |-> Head(q), rest |-> Tail(q)]

\* "while not queue.empty(): items.append(await queue.get())"
RECURSIVE DrainQueue(_)
DrainQueue(q) ==
    IF q = <<>> THEN <<>>
    ELSE LET got == QueueGet(q) IN <<got.item>> \o DrainQueue(got.rest)

\* "for item in items: await queue.put(item)"
RECURSIVE PutAll(_, _)
PutAll(q, items) ==
    IF items = <<>> THEN q
    ELSE PutAll(QueuePut(q, Head(items)), Tail(items))

\* An enqueue that puts the track at the front.
add_to_custom_queue_front(p, track) == [p EXCEPT !.queue = <<track>> \o @]
add_to_custom_queue(p, track) == [p EXCEPT !.queue = QueuePut(@, track)]

\* wavelink Player.play(track): the track is loaded and starts playing.
PlayerPlay(p, track) == [p EXCEPT !.current = <<track>>,
                                  !.node_playing = TRUE,
                                  !.cmds = Append(@, "play")]

\* wavelink Player.stop(): the node ends the playing track with STOPPED.
PlayerStop(p) == [p EXCEPT !.node_playing = FALSE,
                           !.events = IF p.node_playing
                                      THEN Append(@, STOPPED) ELSE @,
                           !.cmds = Append(@, "stop")]

\* wavelink Player.disconnect(): the player leaves and is destroyed.
PlayerDisconnect(p) == [p EXCEPT !.connected = FALSE, !.current = <<>>,
                                 !.node_playing = FALSE,
                                 !.cmds = Append(@, "disconnect")]

\* update_now_playing_message: the edit fails with NotFound when the message
\* was deleted (found = FALSE), and the handle is dropped.
update_now_playing_message(p, found) ==
    IF ~p.current_message \/ p.current = <<>> THEN p
    ELSE IF found THEN p
    ELSE [p EXCEPT !.current_message = FALSE]

disconnect_and_clean_up(p) ==
    PlayerDisconnect([p EXCEPT !.queue = <<>>, !.history = <<>>,
                               !.loop_mode = Off, !.current_message = FALSE])

\* A requeue that forgets to clear the history.
HistoryBackToQueueKeep(p) == [p EXCEPT !.queue = p.queue \o p.history]
\* Lines 58-60: the history is put back on the (empty) custom queue.
HistoryBackToQueue(p) ==
    [p EXCEPT !.queue = p.queue \o p.history, !.history = <<>>]

\* A history push that never drops the oldest entry.
HistoryAppendUncapped(h, track) == Append(h, track)
\* A history push that makes room by dropping the newest entry.
HistoryAppendDropsNewest(h, track) ==
    LET a == Append(h, track)
    IN  IF Len(a) > HistoryCap THEN Front(a) ELSE a
\* Lines 68-71: the track that just ended goes to the history, capped.
HistoryAppend(h, track) ==
    LET a == Append(h, track)
    IN  IF Len(a) > HistoryCap THEN Tail(a) ELSE a

\* A play-next that plays the front of the queue and leaves it queued.
PlayFrontOfQueueKeep(p, found) ==
    LET h == IF p.current # <<>> THEN HistoryAppend(p.history, p.current[1])
             ELSE p.history
    IN  update_now_playing_message(
            PlayerPlay([p EXCEPT !.history = h], Head(p.queue)), found)

\* Lines 66-74: take the front of the queue and play it.
PlayFrontOfQueue(p, found) ==
    LET got == QueueGet(p.queue)
        next_track == got.item
        h == IF p.current # <<>> THEN HistoryAppend(p.history, p.current[1])
             ELSE p.history
    IN  update_now_playing_message(
            PlayerPlay([p EXCEPT !.queue = got.rest, !.history = h],
                       next_track),
            found)

\* A play-next without the loop-song branch of lines 50-53.
play_next_without_song_loop(p, found) ==
    IF p.queue = <<>>
    THEN IF p.loop_mode = LoopQueue /\ p.history # <<>>
         THEN PlayFrontOfQueue(HistoryBackToQueue(p), found)
         ELSE disconnect_and_clean_up(p)
    ELSE PlayFrontOfQueue(p, found)

\* A play-next that waits in the voice channel when nothing is left.
play_next_waits_when_empty(p, found) ==
    IF p.loop_mode = Song /\ p.current # <<>>
    THEN update_now_playing_message(PlayerPlay(p, p.current[1]), found)
    ELSE IF p.queue = <<>>
         THEN IF p.loop_mode = LoopQueue /\ p.history # <<>>
              THEN PlayFrontOfQueue(HistoryBackToQueue(p), found)
              ELSE [p EXCEPT !.current = <<>>]
         ELSE PlayFrontOfQueue(p, found)

\* Lines 46-74: what plays after the current track.
play_next_track_from_custom_queue(p, found) ==
    IF p.loop_mode = Song /\ p.current # <<>>
    THEN update_now_playing_message(PlayerPlay(p, p.current[1]), found)
    ELSE IF p.queue = <<>>
         THEN IF p.loop_mode = LoopQueue /\ p.history # <<>>
              THEN PlayFrontOfQueue(HistoryBackToQueue(p), found)
              ELSE disconnect_and_clean_up(p)
         ELSE PlayFrontOfQueue(p, found)

\* A handler that treats STOPPED like FINISHED.
on_wavelink_track_end_one_path(p, reason, found) ==
    IF ~p.connected THEN p
    ELSE IF reason = FINISHED \/ reason = STOPPED
         THEN play_next_track_from_custom_queue(p, found)
         ELSE p

\* The handler of a track end event with the given reason.
on_wavelink_track_end(p, reason, found) ==
    IF ~p.connected THEN p
    ELSE IF reason = FINISHED
         THEN play_next_track_from_custom_queue(p, found)
         ELSE IF reason = STOPPED
              THEN IF p.queue # <<>>
                   THEN play_next_track_from_custom_queue(p, found)
                   ELSE disconnect_and_clean_up(p)
              ELSE p

\* A previous that puts the current track behind the waiting tracks.
PutCurrentAtBack(p) ==
    IF p.current # <<>> THEN [p EXCEPT !.queue = Append(@, p.current[1])]
    ELSE p

\* Lines 179-183: the current track goes to the front of the custom queue.
PutCurrentInFront(p) ==
    IF p.current # <<>>
    THEN [p EXCEPT !.queue = PutAll(QueuePut(<<>>, p.current[1]),
                                    DrainQueue(p.queue))]
    ELSE p

\* A previous that replays the last history entry and leaves it there.
previous_button_keeps_history(p, found) ==
    IF ~p.connected \/ p.history = <<>> THEN p
    ELSE update_now_playing_message(
             PlayerPlay(PutCurrentInFront(p), Last(p.history)), found)

\* Lines 167-189: the last history entry is played again.
previous_button(p, found) ==
    IF ~p.connected \/ p.history = <<>> THEN p
    ELSE LET previous_track == Last(p.history)
             popped == [p EXCEPT !.history = Front(@)]
         IN  update_now_playing_message(
                 PlayerPlay(PutCurrentInFront(popped), previous_track), found)

PlayerPlaying(p) == p.connected /\ p.current # <<>>

\* A skip that stops the player without asking whether it plays (line 223).
skip_button_always_stops(p) ==
    IF ~p.connected THEN p
    ELSE IF p.current = <<>> /\ p.queue = <<>> /\ ~(p.loop_mode = LoopQueue)
         THEN p
         ELSE PlayerStop(p)

skip_button(p) ==
    IF ~p.connected THEN p
    ELSE IF p.current = <<>> /\ p.queue = <<>> /\ ~(p.loop_mode = LoopQueue)
         THEN p
         ELSE IF PlayerPlaying(p) THEN PlayerStop(p) ELSE p

\* A stop that leaves the voice channel without the clean-up.
stop_button_disconnect_only(p) ==
    IF p.connected THEN PlayerDisconnect(p) ELSE p

stop_button(p) == IF p.connected THEN disconnect_and_clean_up(p) ELSE p

\* Lines 249, 255: a line of the queue display.
QueueLine(track, now_playing) == [track |-> track, now_playing |-> now_playing]

\* Lines 253-256: one display line for each item taken off the queue.
RECURSIVE QueueLines(_)
QueueLines(items) ==
    IF items = <<>> THEN <<>>
    ELSE <<QueueLine(Head(items), FALSE)>> \o QueueLines(Tail(items))

\* Lines 266-268: the first lines are numbered and shown, the others counted.
QueueDisplay(queue_list) ==
    [entries |-> SubSeq(queue_list, 1, Min(DisplayCap, Len(queue_list))),
     more |-> IF Len(queue_list) > DisplayCap
              THEN Len(queue_list) - DisplayCap ELSE 0]

\* A queue display that does not put the items back on the queue.
queue_button_keeps_items(p) ==
    IF ~p.connected \/ (p.current = <<>> /\ p.queue = <<>>) THEN p
    ELSE LET temp_queue_items == DrainQueue(p.queue)
             queue_list ==
                 (IF p.current # <<>>
                  THEN <<QueueLine(p.current[1], TRUE)>> ELSE <<>>)
                 \o QueueLines(temp_queue_items)
         IN  [p EXCEPT !.queue = <<>>, !.display = QueueDisplay(queue_list)]

\* Lines 243-271: every item is taken off the queue, listed and put back.
queue_button(p) ==
    IF ~p.connected \/ (p.current = <<>> /\ p.queue = <<>>) THEN p
    ELSE LET temp_queue_items == DrainQueue(p.queue)
             queue_list ==
                 (IF p.current # <<>>
                  THEN <<QueueLine(p.current[1], TRUE)>> ELSE <<>>)
                 \o QueueLines(temp_queue_items)
         IN  [p EXCEPT !.queue = PutAll(<<>>, temp_queue_items),
                       !.display = QueueDisplay(queue_list)]

\* A shuffle that puts back all drained items but the first.
shuffle_button_loses_one(p, shuffled) ==
    IF ~p.connected \/ p.queue = <<>> THEN p
    ELSE [p EXCEPT !.queue = PutAll(<<>>, Tail(shuffled))]

\* shuffled: the order random.shuffle leaves the drained items in.
shuffle_button(p, shuffled) ==
    IF ~p.connected \/ p.queue = <<>> THEN p
    ELSE [p EXCEPT !.queue = PutAll(<<>>, shuffled)]

\* A loop button that steps through the modes the other way round.
loop_button_backwards(p) ==
    IF ~p.connected THEN p
    ELSE [p EXCEPT !.loop_mode = (p.loop_mode + 2) % 3]

loop_button(p) ==
    IF ~p.connected THEN p
    ELSE [p EXCEPT !.loop_mode = (p.loop_mode + 1) % 3]

PlayerSetVolume(p, v) == [p EXCEPT !.volume = v,
                                   !.cmds = Append(@, "set_volume")]

\* A volume-up without the upper limit of line 318.
vol_up_button_unlimited(p) ==
    IF ~p.connected THEN p
    ELSE PlayerSetVolume(p, p.volume + VolumeStep)

vol_up_button(p) ==
    IF ~p.connected THEN p
    ELSE PlayerSetVolume(p, Min(MaxVolume, p.volume + VolumeStep))

vol_down_button(p) ==
    IF ~p.connected THEN p
    ELSE PlayerSetVolume(p, Max(MinVolume, p.volume - VolumeStep))

\* /play with a query that resolved to a track (lines 340-385). The task of
\* line 385 runs as soon as the command returns.
play(p, track, vol) ==
    LET vc == IF p.connected THEN p ELSE NewPlayer(p, vol)
    IN  IF PlayerPlaying(vc) THEN add_to_custom_queue(vc, track)
        ELSE LET started == [PlayerPlay(vc, track)
                                 EXCEPT !.current_message = TRUE]
             IN  IF started.queue # <<>>
                 THEN play_next_track_from_custom_queue(started, TRUE)
                 ELSE started

\* /play with a query that resolved to nothing (lines 340-350).
play_no_tracks(p, vol) == IF p.connected THEN p ELSE NewPlayer(p, vol)

\* ---------------------------------------------------------------- messages
PreviousMessage(p) ==
    IF ~p.connected THEN "not_in_voice"
    ELSE IF p.history # <<>> THEN "playing_previous" ELSE "no_history"

SkipMessage(p) ==
    IF ~p.connected THEN "not_in_voice"
    ELSE IF p.current = <<>> /\ p.queue = <<>> /\ ~(p.loop_mode = LoopQueue)
         THEN "no_more_songs"
         ELSE IF PlayerPlaying(p) THEN "skipped" ELSE "no_music"

StopMessage(p) == IF p.connected THEN "disconnected" ELSE "not_in_voice"

QueueMessage(p) ==
    IF ~p.connected \/ (p.current = <<>> /\ p.queue = <<>>)
    THEN "queue_empty" ELSE "queue_shown"

ShuffleMessage(p) ==
    IF ~p.connected THEN "not_in_voice"
    ELSE IF p.queue = <<>> THEN "nothing_to_shuffle" ELSE "shuffled"

ConnectedMessage(p, msg) == IF p.connected THEN msg ELSE "not_in_voice"

PlayMessage(p) == IF PlayerPlaying(p) THEN "added_to_queue" ELSE "now_playing"

\* What the track end handler does with the event (it sends no message).
TrackEndOutcome(p, reason) ==
    IF ~p.connected THEN "no_player"
    ELSE IF reason = STOPPED /\ p.queue = <<>>
         THEN IF \/ p.loop_mode = Song /\ p.current # <<>>
                 \/ p.loop_mode = LoopQueue /\ p.history # <<>>
              THEN "disconnect_despite_loop" ELSE "disconnect"
    ELSE IF p.loop_mode = Song /\ p.current # <<>> THEN "replay"
    ELSE IF p.queue # <<>> THEN "play_next"
    ELSE IF p.loop_mode = LoopQueue /\ p.history # <<>> THEN "requeue_history"
    ELSE "disconnect"

\* ----------------------------------------------------------------- actions
Set(p) ==
    /\ connected' = p.connected
    /\ current' = p.current
    /\ queue' = p.queue
    /\ history' = p.history
    /\ loop_mode' = p.loop_mode
    /\ current_message' = p.current_message
    /\ volume' = p.volume
    /\ node_playing' = p.node_playing
    /\ events' = p.events
    /\ cmds' = p.cmds
    /\ display' = p.display

Did(op, msg) == last' = [op |-> op, msg |-> msg]

\* The step takes no play request.
NoRequest ==
    UNCHANGED <<catalogue, requested, requests_left, limits, attended>>

\* The step is no part of a previous() followed by the natural end of the
\* restored track.
NoRoundTrip == restored' = <<>>

\* The step neither takes a play request nor ends a session or a stop.
Env == NoRequest /\ UNCHANGED <<late, raced>> /\ NoRoundTrip

\* The events overtaken by commands are kept track of in the runs about them
\* only.
Late(n) == IF limits.races THEN n ELSE 0
Raced(tracks) == IF limits.races THEN tracks ELSE {}

\* A track stopped event of the running session is in flight.
StopInFlight == \E i \in (late + 1)..Len(events) : events[i] = STOPPED

Join ==
    /\ attended
    /\ ~connected
    /\ \E vol \in limits.volumes : Set(NewPlayer(Player, vol))
    /\ Did("join", "joined")
    /\ Env

\* The tracks a query can resolve to. Songs are interchangeable, so they are
\* numbered in the order in which they are first requested: a request names
\* a song requested before or the next new one. In a run without repeats
\* every request names a new song.
Resolvable ==
    {s \in catalogue : /\ s = 1 \/ requested[s - 1] > 0
                       /\ limits.repeats \/ requested[s] = 0}

Play ==
    /\ attended
    /\ requests_left > 0
    /\ Len(queue) < limits.queue
    /\ \E track \in Resolvable, vol \in limits.volumes :
          /\ Set(play(Player, track, vol))
          /\ requested' = [requested EXCEPT ![track] = @ + 1]
          /\ Did("play", PlayMessage(Player))
          /\ raced' = IF connected /\ StopInFlight
                      THEN Raced(raced \cup {track}) ELSE raced
    /\ requests_left' = requests_left - 1
    /\ UNCHANGED <<catalogue, limits, attended, late>>
    /\ NoRoundTrip

PlayNoTracks ==
    /\ attended
    /\ \E vol \in limits.volumes : Set(play_no_tracks(Player, vol))
    /\ Did("play", "no_tracks")
    /\ Env

\* The session is remembered when a track is current, the history is not
\* empty, the loop mode is not SONG and no event is in flight.
Previous ==
    /\ attended
    /\ \E found \in BOOLEAN : Set(previous_button(Player, found))
    /\ Did("previous", PreviousMessage(Player))
    /\ restored' = IF /\ connected /\ current # <<>> /\ history # <<>>
                      /\ loop_mode # Song /\ events = <<>>
                   THEN <<[current |-> current, queue |-> queue,
                           history |-> history]>>
                   ELSE <<>>
    /\ NoRequest
    /\ UNCHANGED <<late, raced>>

Skip ==
    /\ attended
    /\ node_playing => Len(events) < limits.events
    /\ Set(skip_button(Player))
    /\ Did("skip", SkipMessage(Player))
    /\ Env

\* The events in flight when a session is shut down are late from then on.
Stop ==
    /\ attended
    /\ Set(stop_button(Player))
    /\ Did("stop", StopMessage(Player))
    /\ late' = IF connected THEN Late(Len(events)) ELSE late
    /\ raced' = {}
    /\ NoRequest
    /\ NoRoundTrip

ShowQueue ==
    /\ attended
    /\ Set(queue_button(Player))
    /\ Did("queue", QueueMessage(Player))
    /\ Env

Shuffle ==
    /\ attended
    /\ \E shuffled \in Shuffles(DrainQueue(queue)) :
          Set(shuffle_button(Player, shuffled))
    /\ Did("shuffle", ShuffleMessage(Player))
    /\ Env

Loop ==
    /\ attended
    /\ Set(loop_button(Player))
    /\ Did("loop", ConnectedMessage(Player, "loop_set"))
    /\ Env

\* The volumes within MaxVolumeSteps button presses of a starting volume.
ExploredVolumes ==
    UNION {{Min(MaxVolume, d + k * VolumeStep),
            Max(MinVolume, d - k * VolumeStep)} :
              d \in limits.volumes, k \in 0..MaxVolumeSteps}

VolUp ==
    /\ attended
    /\ connected => Min(MaxVolume, volume + VolumeStep) \in ExploredVolumes
    /\ Set(vol_up_button(Player))
    /\ Did("vol_up", ConnectedMessage(Player, "volume_set"))
    /\ Env

VolDown ==
    /\ attended
    /\ connected => Max(MinVolume, volume - VolumeStep) \in ExploredVolumes
    /\ Set(vol_down_button(Player))
    /\ Did("vol_down", ConnectedMessage(Player, "volume_set"))
    /\ Env

\* The users stop sending commands.
UsersLeave ==
    /\ attended
    /\ attended' = FALSE
    /\ Set(Player)
    /\ Did("users", "left")
    /\ UNCHANGED <<catalogue, requested, requests_left, limits, late, raced>>
    /\ NoRoundTrip

\* The node: the playing track reaches its end.
TrackFinishes ==
    /\ node_playing
    /\ Len(events) < limits.events
    /\ Set([Player EXCEPT !.node_playing = FALSE,
                          !.events = Append(@, FINISHED)])
    /\ Did("node", "track_finished")
    /\ restored' = IF last.op = "previous" THEN restored ELSE <<>>
    /\ NoRequest
    /\ UNCHANGED <<late, raced>>

\* The oldest track end event in flight is delivered to the handler.
TrackEnd ==
    /\ events # <<>>
    /\ \E found \in BOOLEAN :
          Set(on_wavelink_track_end([Player EXCEPT !.events = Tail(@)],
                                    Head(events), found))
    /\ Did(IF Head(events) = FINISHED THEN "track_finished"
           ELSE "track_stopped", TrackEndOutcome(Player, Head(events)))
    /\ late' = IF connected /\ ~connected' THEN Late(Len(events'))
               ELSE IF late > 0 THEN late - 1 ELSE 0
    /\ raced' = IF ~connected' \/ (late = 0 /\ Head(events) = STOPPED)
                THEN {} ELSE raced
    /\ restored' = IF last = [op |-> "node", msg |-> "track_finished"]
                   THEN restored ELSE <<>>
    /\ NoRequest

Next ==
    \/ Join
    \/ Play
    \/ PlayNoTracks
    \/ Previous
    \/ Skip
    \/ Stop
    \/ ShowQueue
    \/ Shuffle
    \/ Loop
    \/ VolUp
    \/ VolDown
    \/ TrackFinishes
    \/ TrackEnd

\* No player yet; the run has the given catalogue, requests and bounds.
InitPlayer(songs, requests, bounds) ==
    /\ connected = FALSE
    /\ current = <<>>
    /\ queue = <<>>
    /\ history = <<>>
    /\ loop_mode = Off
    /\ current_message = FALSE
    /\ volume \in bounds.volumes
    /\ node_playing = FALSE
    /\ events = <<>>
    /\ cmds = <<>>
    /\ display = NoDisplay
    /\ last = [op |-> "start", msg |-> "none"]
    /\ catalogue = songs
    /\ requested = [s \in Songs \cup songs |-> 0]
    /\ requests_left = requests
    /\ limits = bounds
    /\ attended = TRUE
    /\ late = 0
    /\ raced = {}
    /\ restored = <<>>

\* The bounds of the short sessions.
ShortLimits == [queue |-> MaxQueue, events |-> MaxEvents,
                volumes |-> DefaultVolumes, repeats |-> TRUE,
                races |-> FALSE]

\* Short sessions over several songs.
Init == InitPlayer(Songs, MaxRequests, ShortLimits)

\* Long sessions of one song, long enough to fill the history.
InitLong == InitPlayer({1}, LongRequests, ShortLimits)

\* The bounds of the sessions over a long playlist.
PlaylistLimits == [queue |-> LongQueue, events |-> MaxEvents,
                   volumes |-> DefaultVolumes, repeats |-> FALSE,
                   races |-> FALSE]

\* Sessions over a long playlist: every request names a new track, and the
\* playlist is longer than the history and the queue display.
InitPlaylist ==
    InitPlayer(1..PlaylistRequests, PlaylistRequests, PlaylistLimits)

\* The steps of the sessions over a long playlist: the loop, shuffle and
\* volume buttons are not pressed.
NextPlaylist ==
    \/ Join
    \/ Play
    \/ PlayNoTracks
    \/ Previous
    \/ Skip
    \/ Stop
    \/ ShowQueue
    \/ TrackFinishes
    \/ TrackEnd

\* The bounds of the runs about the volume.
VolumeLimits == [queue |-> MaxQueue, events |-> MaxEvents,
                 volumes |-> StartVolumes, repeats |-> TRUE,
                 races |-> FALSE]

\* Short sessions of players that start at different volumes.
InitVolume == InitPlayer({1}, VolumeRequests, VolumeLimits)

\* The bounds of the runs about events that are overtaken by commands.
RaceLimits == [queue |-> MaxQueue, events |-> RaceEvents,
               volumes |-> DefaultVolumes, repeats |-> TRUE,
               races |-> TRUE]

\* Short sessions in which two track end events can be in flight.
InitRace == InitPlayer(Songs, MaxRequests, RaceLimits)

\* The steps of the sessions that users leave to themselves. The previous,
\* volume, queue and shuffle buttons are not pressed.
NextUnattended ==
    \/ Join
    \/ Play
    \/ PlayNoTracks
    \/ Skip
    \/ Stop
    \/ Loop
    \/ UsersLeave
    \/ TrackFinishes
    \/ TrackEnd

Spec == Init /\ [][Next]_vars
SpecLong == InitLong /\ [][Next]_vars
SpecPlaylist == InitPlaylist /\ [][NextPlaylist]_vars
SpecVolume == InitVolume /\ [][Next]_vars
SpecRace == InitRace /\ [][Next]_vars
\* Every track the node plays reaches its end, and every track end event is
\* delivered to the handler.
SpecUnattended ==
    /\ Init
    /\ [][NextUnattended]_vars
    /\ WF_vars(TrackFinishes)
    /\ WF_vars(TrackEnd)

\* ------------------------------------------------------------------ claims
Playing == connected /\ current # <<>>
\* The step is a /play whose query resolved to the track.
PlayRequestFor(track) ==
    last'.op = "play" /\ requested'[track] = requested[track] + 1
TrackFinishedStep == last'.op = "track_finished" /\ connected
TrackStoppedStep == last'.op = "track_stopped" /\ connected
\* The tracks of the session: playing, waiting or played.
Held == Range(current) \cup Range(queue) \cup Range(history)

\* C1: a play request with a resolved track T either plays or enqueues it:
\* if nothing is playing T becomes current and queue and history are
\* unchanged; if something is playing T is appended at the tail of the queue
\* and current and history are unchanged. Afterwards T is current or queued.
C1_PlayOrEnqueue ==
    [][\A track \in Songs :
          PlayRequestFor(track) =>
             /\ IF Playing
                THEN /\ queue' = Append(queue, track)
                     /\ current' = current
                     /\ history' = history
                ELSE /\ current' = <<track>>
                     /\ queue' = queue
                     /\ history' = history
             /\ (current' = <<track>> \/ track \in Range(queue'))]_vars

\* A play request was queued behind a different waiting track.
C1_Witness ==
    /\ last = [op |-> "play", msg |-> "added_to_queue"]
    /\ Len(queue) >= 2
    /\ queue[Len(queue)] # queue[Len(queue) - 1]

\* C2: the queue is FIFO. With loop mode OFF and no shuffle, previous or
\* shutdown, a step changes the queue only by appending the requested track
\* at the tail (play request) or by removing the front track, which becomes
\* current (track end); every track finished event with a waiting track
\* promotes the front one. So tracks become current in the order in which
\* they were enqueued, each once.
C2_QueueIsFifo ==
    [][(loop_mode = Off /\ last'.op \notin {"shuffle", "previous", "stop"}) =>
          /\ \/ queue' = queue
             \/ \E track \in Songs :
                   PlayRequestFor(track) /\ queue' = Append(queue, track)
             \/ /\ last'.op \in {"track_finished", "track_stopped"}
                /\ queue # <<>>
                /\ current' = <<Head(queue)>>
                /\ queue' = Tail(queue)
          /\ (TrackFinishedStep /\ queue # <<>>) =>
                (current' = <<Head(queue)>> /\ queue' = Tail(queue))]_vars

\* A track finished event promoted the front track while a different track
\* still waits behind it.
C2_Witness ==
    /\ last = [op |-> "track_finished", msg |-> "play_next"]
    /\ loop_mode = Off
    /\ current # <<>>
    /\ queue # <<>>
    /\ current[1] # queue[1]
    /\ history # <<>>

\* C3: in every reachable state the history holds at most 10 tracks.
C3_HistoryAtMostTen == Len(history) <= HistoryCap

\* Twelve tracks were requested and eleven of them have ended one after the
\* other: the history is full and its oldest entry was dropped.
C3_Witness ==
    /\ last.op = "track_finished"
    /\ Len(history) = HistoryCap
    /\ current # <<>>
    /\ requests_left = 0
    /\ LongRequests > HistoryCap + 1

\* C4 as stated: whenever a track is current, no element of the queue is
\* that track.
C4_QueueNeverHoldsCurrent ==
    current # <<>> => \A i \in 1..Len(queue) : queue[i] # current[1]

\* C4 amended: the current track and its entries in the queue together never
\* outnumber the play requests made for that track, so the queue holds the
\* current track only when it was requested again.
C4_QueueHoldsCurrentOnlyIfRequestedAgain ==
    current # <<>> =>
        1 + Count(queue, current[1]) <= requested[current[1]]

\* A track requested twice plays while its second entry waits, after the
\* track before it has ended.
C4_Witness ==
    /\ last.op = "track_finished"
    /\ current # <<>>
    /\ current[1] \in Range(queue)
    /\ requested[current[1]] = 2

\* C5: with loop mode SONG and a current track A, a track finished event
\* replays A: current is still A, and queue and history are what they were.
C5_SongLoopReplays ==
    [][(TrackFinishedStep /\ loop_mode = Song /\ current # <<>>) =>
          /\ current' = current
          /\ queue' = queue
          /\ history' = history
          /\ loop_mode' = Song
          /\ connected'
          /\ cmds' = <<"play">>]_vars

\* A finished track was replayed with tracks in the queue and the history.
C5_Witness ==
    /\ last = [op |-> "track_finished", msg |-> "replay"]
    /\ loop_mode = Song
    /\ current # <<>>
    /\ queue # <<>>
    /\ history # <<>>
    /\ cmds = <<"play">>

\* C6: with loop mode QUEUE, an empty queue and history h1..hn (n >= 1), a
\* track finished event makes h1 current, leaves h2..hn in the queue in
\* the same order, and leaves in the history only the track that just
\* finished.
C6_QueueLoopRequeuesHistory ==
    [][(/\ TrackFinishedStep
        /\ loop_mode = LoopQueue
        /\ queue = <<>>
        /\ history # <<>>) =>
          /\ current' = <<Head(history)>>
          /\ queue' = Tail(history)
          /\ history' = current
          /\ connected']_vars

\* The history was requeued: its oldest track plays, a different one waits
\* and the finished track is the only history entry.
C6_Witness ==
    /\ last = [op |-> "track_finished", msg |-> "requeue_history"]
    /\ loop_mode = LoopQueue
    /\ current # <<>>
    /\ queue # <<>>
    /\ queue[1] # current[1]
    /\ Len(history) = 1

\* C7: a track stopped event processed while the queue is empty disconnects
\* and resets the session (queue and history empty, loop mode OFF), for
\* every loop mode and history; it never replays or restarts from history.
C7_StoppedWithEmptyQueueDisconnects ==
    [][(last'.op = "track_stopped" /\ queue = <<>>) =>
          /\ ~connected'
          /\ current' = <<>>
          /\ queue' = <<>>
          /\ history' = <<>>
          /\ loop_mode' = Off
          /\ cmds' = IF connected THEN <<"disconnect">> ELSE <<>>]_vars

\* A stopped event disconnected a session that a finished event would have
\* continued by looping.
C7_Witness ==
    /\ last = [op |-> "track_stopped", msg |-> "disconnect_despite_loop"]
    /\ ~connected
    /\ cmds = <<"disconnect">>

\* C8: previous with a non-empty history and a current track C: the last
\* history entry becomes current, the history loses exactly that entry, and
\* the queue is C followed by the old queue in its order; C does not go to
\* the history.
C8_PreviousRestoresLastPlayed ==
    [][(/\ last'.op = "previous"
        /\ connected
        /\ history # <<>>
        /\ current # <<>>) =>
          /\ current' = <<Last(history)>>
          /\ history' = Front(history)
          /\ queue' = current \o queue
          /\ cmds' = <<"play">>]_vars

\* Previous restored a track and put the one that was playing in front of a
\* different waiting track; the history is empty again.
C8_Witness ==
    /\ last = [op |-> "previous", msg |-> "playing_previous"]
    /\ current # <<>>
    /\ history = <<>>
    /\ Len(queue) >= 2
    /\ queue[1] # queue[2]
    /\ cmds = <<"play">>

\* C9: the stop command leaves the queue empty, the history empty, loop
\* mode OFF and the now-playing message handle absent, from any state, and
\* with the session gone; a stop on a session that is gone (as it is after a
\* first stop) changes nothing and sends no command.
C9_ShutdownResetsAndIsIdempotent ==
    [][last'.op = "stop" =>
          /\ ~connected'
          /\ current' = <<>>
          /\ queue' = <<>>
          /\ history' = <<>>
          /\ loop_mode' = Off
          /\ ~current_message'
          /\ ~connected =>
                /\ UNCHANGED <<connected, current, queue, history, loop_mode,
                               current_message, volume, node_playing, events>>
                /\ cmds' = <<>>]_vars

\* A stop was pressed after a session had been shut down, with a track end
\* event of that session still in flight.
C9_Witness ==
    /\ last = [op |-> "stop", msg |-> "not_in_voice"]
    /\ ~connected
    /\ requests_left < MaxRequests
    /\ cmds = <<>>
    /\ events # <<>>

\* C10: previous with an empty history and skip with no current track are
\* answered with a message only: current, queue, history and loop mode are
\* unchanged, no command goes to the node and the session stays connected.
C10_FailedCommandsLeaveSession ==
    [][(\/ last'.op = "previous" /\ history = <<>>
        \/ last'.op = "skip" /\ current = <<>>) =>
          /\ UNCHANGED <<connected, current, queue, history, loop_mode,
                         current_message, volume, node_playing, events>>
          /\ cmds' = <<>>
          /\ last'.msg \in {"no_history", "no_more_songs", "no_music",
                             "not_in_voice"}]_vars

\* Previous was refused for lack of history while a track plays and another
\* one waits.
C10_Witness ==
    /\ last = [op |-> "previous", msg |-> "no_history"]
    /\ connected
    /\ current # <<>>
    /\ queue # <<>>
    /\ cmds = <<>>

\* C11: shuffle preserves the contents of the queue: the queue after the
\* shuffle has the size and the multiset of tracks of the queue before it, a
\* queue of size 0 or 1 keeps its order, and current, history and loop mode
\* are unchanged.
C11_ShufflePreservesContents ==
    [][last'.op = "shuffle" =>
          /\ Len(queue') = Len(queue)
          /\ \A track \in Songs : Count(queue', track) = Count(queue, track)
          /\ Len(queue) <= 1 => queue' = queue
          /\ UNCHANGED <<current, history, loop_mode>>]_vars

\* A queue of two different tracks was shuffled while a third request plays.
C11_Witness ==
    /\ last = [op |-> "shuffle", msg |-> "shuffled"]
    /\ Len(queue) >= 2
    /\ queue[1] # queue[2]
    /\ current # <<>>

\* C12: showing the queue is read-only: the queue holds the same tracks in
\* the same order afterwards, and current and history are unchanged. The
\* display lists current first (marked as playing) if there is one, then the
\* queue front to back, at most 10 entries in all, with an overflow count
\* equal to the number of entries beyond 10.
C12_QueueDisplayIsReadOnly ==
    [][last'.op = "queue" =>
          /\ UNCHANGED <<queue, current, history>>
          /\ last'.msg # "queue_shown" => display' = NoDisplay
          /\ last'.msg = "queue_shown" =>
                LET listed == current \o queue
                    shown == display'.entries
                IN  /\ Len(shown) <= DisplayCap
                    /\ Len(shown) = IF Len(listed) <= DisplayCap
                                    THEN Len(listed) ELSE DisplayCap
                    /\ \A i \in 1..Len(shown) :
                          /\ shown[i].track = listed[i]
                          /\ shown[i].now_playing = (i = 1 /\ current # <<>>)
                    /\ display'.more = IF Len(listed) > DisplayCap
                                       THEN Len(listed) - DisplayCap ELSE 0]_vars

\* The queue was shown while a track plays and eleven others wait: ten
\* entries are listed and two are counted as overflow.
C12_Witness ==
    /\ last = [op |-> "queue", msg |-> "queue_shown"]
    /\ current # <<>>
    /\ Len(queue) = DisplayCap + 1
    /\ queue[1] # queue[2]
    /\ Len(display.entries) = DisplayCap
    /\ display.more = 2

\* C13: volume changes are clamped. A player that starts with a volume in
\* 0..1000 keeps its volume in 0..1000 whatever steps are taken; volume-up
\* adds 100 and volume-down takes 100 away, except that the result is 1000
\* where the sum would be more and 0 where the difference would be less:
\* volume-up at 950 gives 1000 and volume-down at 50 gives 0. Both tell the
\* node the new volume.
C13_VolumeIsClamped ==
    [][/\ volume \in 0..1000 => volume' \in 0..1000
       /\ (last'.op = "vol_up" /\ connected) =>
             /\ volume' = IF volume + 100 > 1000 THEN 1000 ELSE volume + 100
             /\ volume = 950 => volume' = 1000
             /\ cmds' = <<"set_volume">>
       /\ (last'.op = "vol_down" /\ connected) =>
             /\ volume' = IF volume - 100 < 0 THEN 0 ELSE volume - 100
             /\ volume = 50 => volume' = 0
             /\ cmds' = <<"set_volume">>]_vars

\* Volume-up took a player that started at 950 to 1000: no starting volume
\* is an exact number of steps below 1000.
C13_Witness ==
    /\ last = [op |-> "vol_up", msg |-> "volume_set"]
    /\ volume = 1000
    /\ \A d \in limits.volumes : (1000 - d) % 100 # 0
    /\ cmds = <<"set_volume">>

\* C14: on a connected session the loop command always succeeds and takes
\* the loop mode from OFF to SONG, from SONG to QUEUE and from QUEUE to OFF,
\* so three presses return to the starting mode; it changes nothing else
\* (current, queue, history, volume, the node) and sends no command to the
\* node.
C14_LoopCyclesAndIsPure ==
    [][(last'.op = "loop" /\ connected) =>
          /\ loop_mode = Off => loop_mode' = Song
          /\ loop_mode = Song => loop_mode' = LoopQueue
          /\ loop_mode = LoopQueue => loop_mode' = Off
          /\ loop_button(loop_button(loop_button(Player))).loop_mode
                = loop_mode
          /\ last'.msg = "loop_set"
          /\ UNCHANGED <<connected, current, queue, history, volume,
                         current_message, node_playing, events>>
          /\ cmds' = <<>>]_vars

\* The loop button took the mode from QUEUE back to OFF while a track
\* plays, another waits and a third is in the history.
C14_Witness ==
    /\ last = [op |-> "loop", msg |-> "loop_set"]
    /\ loop_mode = Off
    /\ current # <<>>
    /\ queue # <<>>
    /\ history # <<>>
    /\ cmds = <<>>

\* C15: loop mode QUEUE replays the whole playlist and the session never
\* disconnects. While only track finished events occur no track is
\* requested, so a track can be played again only if the session still
\* holds it: every track finished event processed with loop mode QUEUE and a
\* current track leaves the session connected, and every track that was
\* playing, waiting or in the history is still one of the three.
C15_QueueLoopKeepsPlaylist ==
    [][(TrackFinishedStep /\ loop_mode = LoopQueue /\ current # <<>>) =>
          /\ connected'
          /\ \A track \in Held : track \in Held']_vars

\* C16: a play request for a track X processed after skip has told the node
\* to stop, and before the track stopped event of that stop is processed, is
\* not lost: from the request until that event has been processed, every
\* step other than the stop command leaves the session connected and X
\* current or in the queue.
C16_PlayAfterSkipIsNotLost ==
    [][last'.op # "stop" =>
          \A track \in raced \cup raced' :
              /\ connected'
              /\ current' = <<track>> \/ track \in Range(queue')]_vars

\* C17: a track end event (finished or stopped) that was sent before a
\* shutdown and is processed after it is a no-op: current, queue, history,
\* loop mode and the now-playing message handle stay as they are at that
\* moment, no track is played and nothing is disconnected, also when play
\* requests have started a new session since the shutdown.
C17_LateTrackEndIsIgnored ==
    [][(last'.op \in {"track_finished", "track_stopped"} /\ late > 0) =>
          /\ UNCHANGED <<connected, current, queue, history, loop_mode,
                         current_message>>
          /\ cmds' = <<>>]_vars

\* The handler of a track end event pushes the track that ended: a player is
\* there, a track is current, another one waits and the loop mode is not SONG.
PushesCurrent ==
    /\ last'.op \in {"track_finished", "track_stopped"}
    /\ connected /\ current # <<>> /\ queue # <<>> /\ loop_mode # Song

\* The history holds the tracks that come right before the current one in the
\* playlist, in playlist order.
HistoryIsLatestPlayed ==
    current # <<>> =>
        \A i \in 1..Len(history) :
            history[i] = current[1] - Len(history) + i - 1

\* C18: the history drops from the front. A push onto a history of 10 entries
\* removes the oldest entry, keeps the other nine in order and puts the track
\* that ended last; a push onto a shorter history appends. Over a playlist
\* whose tracks are numbered in play order the history is therefore always
\* the run of (at most 10) tracks played right before the current one, in
\* that order.
C18_HistoryDropsFromFront ==
    /\ [][PushesCurrent =>
             IF Len(history) = HistoryCap
             THEN /\ Len(history') = HistoryCap
                  /\ \A i \in 1..(HistoryCap - 1) : history'[i] = history[i + 1]
                  /\ history'[HistoryCap] = current[1]
             ELSE history' = Append(history, current[1])]_vars
    /\ []HistoryIsLatestPlayed

\* The fifteenth track of a playlist has just finished and was pushed onto a
\* full history: pushes 6 to 15 are left, in push order.
C18_Witness ==
    /\ last.op = "track_finished"
    /\ current = <<16>>
    /\ history = [i \in 1..HistoryCap |-> i + 5]

\* C19: previous() followed by the natural end of the restored track is a
\* round trip. When previous() is pressed while a track is current, the
\* history is not empty and the loop mode is not SONG, and the restored track
\* then finishes and its event is handled, the current track, the queue and
\* the history are what they were before previous().
\* The same holds of the two handlers applied one after the other to any
\* such state, whatever events are in flight.
C19_PreviousThenFinishIsRoundTrip ==
    /\ (restored # <<>> /\ last.op = "track_finished") =>
           /\ connected
           /\ current = restored[1].current
           /\ queue = restored[1].queue
           /\ history = restored[1].history
    /\ (connected /\ current # <<>> /\ history # <<>> /\ loop_mode # Song) =>
           \A found1, found2 \in BOOLEAN :
               LET after == on_wavelink_track_end(
                                previous_button(Player, found1), FINISHED,
                                found2)
               IN  /\ after.connected
                   /\ after.current = current
                   /\ after.queue = queue
                   /\ after.history = history

\* The round trip was made with another track waiting behind the current
\* one.
C19_Witness ==
    /\ restored # <<>>
    /\ last.op = "track_finished"
    /\ restored[1].queue # <<>>
    /\ restored[1].current # <<Last(restored[1].history)>>

\* The users have left a session with loop mode OFF to itself.
UnattendedLoopOff == ~attended /\ connected /\ loop_mode = Off

\* C20: with loop mode OFF and no further user commands, a session whose
\* tracks all reach their end eventually disconnects. Until then every play
\* command takes the track at the front of the queue and removes it, so each
\* queued track is played exactly once; a track finished event that finds
\* the queue empty tears the session down, and the queue and the history are
\* empty and the loop mode is OFF afterwards.
C20_UnattendedSessionDrains ==
    /\ [](UnattendedLoopOff /\ current # <<>> => <>~connected)
    /\ [][(UnattendedLoopOff /\ "play" \in Range(cmds')) =>
             /\ queue # <<>>
             /\ cmds' = <<"play">>
             /\ current' = <<Head(queue)>>
             /\ queue' = Tail(queue)]_vars
    /\ [][(UnattendedLoopOff /\ queue' # queue) => "play" \in Range(cmds')]_vars
    /\ [][(UnattendedLoopOff /\ last'.op = "track_finished") =>
             IF queue # <<>>
             THEN connected' /\ cmds' = <<"play">>
             ELSE /\ ~connected'
                  /\ cmds' = <<"disconnect">>
                  /\ queue' = <<>> /\ history' = <<>> /\ loop_mode' = Off]_vars

\* An unattended session with loop mode OFF has played its last track and
\* was torn down by the track finished event of that track.
C20_Witness ==
    /\ ~attended
    /\ ~connected
    /\ last = [op |-> "track_finished", msg |-> "disconnect"]
    /\ cmds = <<"disconnect">>
    /\ queue = <<>> /\ history = <<>> /\ loop_mode = Off
====
